---------------------------- MODULE Spec2Model ----------------------------
(***************************************************************************)
(* Model of the multi-agent-demo orchestration engine.                     *)
(*                                                                         *)
(* The repository holds two generations of Orchestrator:                   *)
(*   "metrics" : src/src/agents/base.js:190-708 (same code, with a         *)
(*               visualizer, in src/unnamed/part_001)                      *)
(*   "tracked" : src/src/agents/orchestrator.js                            *)
(* Both run processDesign as                                               *)
(*   planner.analyzeDesign -> setupWorktrees -> executeWorkers -> summary  *)
(* and both dispatch WorkerAgent.buildComponent (src/src/agents/worker.js) *)
(* in priority tiers cut into chunks of config.maxParallelWorkers.         *)
(*                                                                         *)
(* A component is identified by its position in plan.components; its name  *)
(* is ComponentNames[position].  Strings that the code transforms are      *)
(* sequences of one-character strings.                                     *)
(***************************************************************************)
EXTENDS Integers, Sequences, FiniteSets, TLC

\* ---------------------------------------------------------------- bounds
MaxTasks == 3        \* longest plan.components the planner returns
MaxPriority == 2     \* priorities of a plan are drawn from 1..MaxPriority
MaxParallel == 2     \* largest maxParallelWorkers a caller passes
MaxCalls == 2        \* times setupWorktrees handles one name in a row
MaxRuns == 2         \* processDesign calls made on one Orchestrator

\* ------------------------------------------------------ program constants
DefaultMaxParallelMetrics == 2
DefaultMaxParallelTracked == 4

Variants == {"metrics", "tracked"}

\* names used by the repository's own plans and scripts
ComponentNames ==
  << <<"b","u","t","t","o","n">>,
     <<"i","n","p","u","t">>,
     <<"c","a","r","d">>,
     <<"h","e","a","d","e","r">>,
     <<"s","i","d","e","b","a","r">>,
     <<"m","o","d","a","l">>,
     <<"f","o","o","t","e","r">>,
     <<"t","a","b","l","e">> >>

\* ------------------------------------------------------- String helpers
LowerChars == <<"a","b","c","d","e","f","g","h","i","j","k","l","m",
                "n","o","p","q","r","s","t","u","v","w","x","y","z">>
UpperChars == <<"A","B","C","D","E","F","G","H","I","J","K","L","M",
                "N","O","P","Q","R","S","T","U","V","W","X","Y","Z">>

UpperOf == [ch \in {LowerChars[i] : i \in 1..26} |->
              UpperChars[CHOOSE i \in 1..26 : LowerChars[i] = ch]]
LowerOf == [ch \in {UpperChars[i] : i \in 1..26} |->
              LowerChars[CHOOSE i \in 1..26 : UpperChars[i] = ch]]

\* String.prototype.toUpperCase / toLowerCase on one character
toUpperCase(ch) == IF ch \in DOMAIN UpperOf THEN UpperOf[ch] ELSE ch
toLowerCase(ch) == IF ch \in DOMAIN LowerOf THEN LowerOf[ch] ELSE ch

RECURSIVE PascalFrom(_, _, _)
PascalFrom(str, i, wordStart) ==
  IF i > Len(str) THEN <<>>
  ELSE IF str[i] \in {"-", "_"} THEN PascalFrom(str, i + 1, TRUE)
  ELSE << IF wordStart THEN toUpperCase(str[i]) ELSE toLowerCase(str[i]) >>
         \o PascalFrom(str, i + 1, FALSE)

\* str.split(/[-_]/).map(w => w.charAt(0).toUpperCase()
\*                            + w.slice(1).toLowerCase()).join('')
toPascalCase(str) == PascalFrom(str, 1, TRUE)

Min(a, b) == IF a < b THEN a ELSE b
Max(a, b) == IF a > b THEN a ELSE b

\* -------------------------------------------------------------- state
VARIABLES
  variant,            \* which Orchestrator source runs: "metrics" | "tracked"
  config,             \* this.config (the field the dispatcher reads)
  phase,              \* position of processDesign / main
  thrown,             \* the error processDesign rethrows, "none" if none
  plannerCalls,       \* number of planner.analyzeDesign calls made
  plan,               \* what analyzeDesign settled with
  setupIdx,           \* components handled so far by the loop of setupWorktrees
  fsFresh,            \* TRUE when worktreeBase holds no directory at the start
  prov,               \* repeated provisioning of one name: repository and calls
  calc,               \* groupByPriority and chunk applied to a component list
  figmaUrl,           \* the argument of processDesign: "demo" or a Figma URL
  work,               \* one callback of chunk.map: its inputs and what it gave
  loop,               \* one call of chunk: its arguments, i and the chunks so far
  cli,                \* what the planner's CLI call gave
  agent,              \* one BaseAgent.run call of the tool-loop agent
  worktree,           \* state of join(worktreeBase, name) per component position
  groups,             \* Object.entries(groups) of executeWorkers
  chunks,             \* chunks of the current tier
  tierIdx,            \* position in Object.entries(groups) of executeWorkers
  chunkIdx,           \* position in chunks of the current tier
  mapped,             \* callbacks of chunk.map already invoked for the chunk
  running,            \* components whose buildComponent call has not settled
  workingDir,         \* workingDir handed to each started buildComponent
  settled,            \* value each settled callback promise resolved with
  raised,             \* components whose execute call threw inside the worker
  invocations,        \* worker.buildComponent calls made so far per component
  results,            \* the local results array of executeWorkers
  metricsComponents,  \* this.metrics.components ("metrics" only)
  progress,           \* this.progress
  inProgress,         \* this.progress.inProgress ("tracked" only)
  ret                 \* value processDesign returned

envVars == << variant, config, fsFresh, prov, calc, figmaUrl, work, loop, cli, agent >>
planVars == << plannerCalls, plan >>
setupVars == << setupIdx, worktree >>
loopVars == << groups, chunks, tierIdx, chunkIdx, mapped >>
taskVars == << running, workingDir, settled, raised, invocations >>
outVars == << results, metricsComponents, progress, inProgress >>
endVars == << ret >>

vars == << envVars, phase, thrown, planVars, setupVars, loopVars, taskVars,
           outVars, endVars >>

\* --------------------------------------------------- JavaScript values
\* The JavaScript values a component's priority field or a config key can
\* hold: a number (n), NaN, undefined, null, or a string (s).  The strings
\* of the model are not numerals.
Num(n) == [t |-> "number", n |-> n, s |-> ""]
Str(s) == [t |-> "string", n |-> 0, s |-> s]
NaN == [t |-> "NaN", n |-> 0, s |-> ""]
Undefined == [t |-> "undefined", n |-> 0, s |-> ""]
Null == [t |-> "null", n |-> 0, s |-> ""]

\* The operand of `||` that counts as false: undefined, null, NaN, 0, "".
Falsy(x) == x.t \in {"undefined", "null", "NaN"} \/ x = Num(0) \/ x = Str("")

\* ------------------------------------------------------- constructor
\* A caller's config object, reduced to its maxParallelWorkers key: whether
\* the object has the key, and the key's value.
ConfigWith(x) == [has |-> TRUE, maxParallelWorkers |-> x]
ConfigWithout == [has |-> FALSE, maxParallelWorkers |-> Undefined]

\* index.js passes 3, demo.js 2, build-from-figma.js its --max-parallel
\* option; the constructor default applies when the key is not passed.
CallerConfigs ==
  {ConfigWithout} \cup {ConfigWith(Num(n)) : n \in 1..MaxParallel}

DefaultMaxParallel(v) ==
  Num(IF v = "metrics" THEN DefaultMaxParallelMetrics
      ELSE DefaultMaxParallelTracked)

\* { maxParallelWorkers: config.maxParallelWorkers || <default>, ...config }
\* The spread comes last, so a key the caller's object has wins whatever its
\* value; the `||` decides only when the object lacks the key.
Constructor(v, cfg) ==
  LET defaults == [maxParallelWorkers |->
                     IF Falsy(cfg.maxParallelWorkers) THEN DefaultMaxParallel(v)
                     ELSE cfg.maxParallelWorkers]
  IN IF cfg.has
     THEN [defaults EXCEPT !.maxParallelWorkers = cfg.maxParallelWorkers]
     ELSE defaults

\* ------------------------------------------------------------ planner
Component(i, p) == [name |-> ComponentNames[i], priority |-> p]

\* Both planners sort plan.components by ascending priority before they
\* hand the plan over (planner.js:336 and :460; the mock plan is sorted).
SortedPriorityLists(n) ==
  { ps \in [1..n -> 1..MaxPriority] :
      \A i \in 1..n, j \in 1..n : i < j => ps[i] <= ps[j] }

PlansOfLength(n) ==
  { [kind |-> "plan", components |-> [i \in 1..n |-> Component(i, Num(ps[i]))]] :
      ps \in SortedPriorityLists(n) }

NoPlan == [kind |-> "pending", components |-> <<>>]
NullPlan == [kind |-> "null", components |-> <<>>]
PlannerThrew == [kind |-> "threw", components |-> <<>>]

\* What analyzeDesign can settle with, seen from the orchestrator: a
\* rejection, null (developmentPlan never set), or a plan of 0..MaxTasks
\* components.
PlannerOutcomes ==
  {NullPlan, PlannerThrew} \cup UNION { PlansOfLength(n) : n \in 0..MaxTasks }

\* getMockPlan: button and input of priority 1, card of priority 2, header
\* of priority 3.
MockPriorities == << 1, 1, 2, 3 >>

MockPlan ==
  [kind |-> "plan",
   components |-> [i \in 1..Len(MockPriorities) |->
                     Component(i, Num(MockPriorities[i]))]]

\* What analyzeDesign(figmaUrl) can settle with.  The planner that has
\* the demo mode returns the mock plan at once for 'demo'.
analyzeDesign(url) == IF url = "demo" THEN {MockPlan} ELSE PlannerOutcomes

\* ------------------------------------ analyzeDesign of the CLI planner
\* What `await this.execute(task, { jsonOutput: true })` can give:
\*   threw         execute threw (the CLI call failed)
\*   raw           the output is no JSON: { raw: output }
\*   null          the output is the JSON null
\*   noComponents  an object without a components key
\*   text          an object whose components is a non-empty string
\*   components    an object whose components is an array of 0..MaxTasks
\*                 components with numeric priorities in any order
UnsortedListsOfLength(n) ==
  { [i \in 1..n |-> Component(i, Num(ps[i]))] : ps \in [1..n -> 1..MaxPriority] }

CliResultsOfLength(n) ==
  { [kind |-> k, components |-> << >>] :
      k \in {"threw", "raw", "null", "noComponents", "text"} }
    \cup { [kind |-> "components", components |-> cs] :
             cs \in UnsortedListsOfLength(n) }

\* components.sort((a, b) => a.priority - b.priority): the stable sort by
\* ascending priority.  rank(i) is the place of element i in the result.
sortByPriority(components) ==
  LET n == Len(components)
      before(j, i) ==
        \/ components[j].priority.n < components[i].priority.n
        \/ (components[j].priority.n = components[i].priority.n /\ j <= i)
      rank(i) == Cardinality({ j \in 1..n : before(j, i) })
  IN [k \in 1..n |-> components[CHOOSE i \in 1..n : rank(i) = k]]

\* Mutant: the plan is returned as the CLI gave it, empty or not, unsorted.
analyzeDesignTryUnchecked(r) ==
  IF r.kind = "threw" THEN [kind |-> "throw", plan |-> NoPlan]
  ELSE [kind |-> "return",
        plan |-> [kind |-> "plan", components |-> r.components]]

\* The try block of analyzeDesign: execute's error and the TypeErrors of
\* `result.components` on null and of `.sort` on a string leave the
\* block; a non-empty array is sorted and returned; everything else falls
\* through to `return this.getMockPlan()`.
analyzeDesignTry(r) ==
  IF r.kind \in {"threw", "null", "text"}
  THEN [kind |-> "throw", plan |-> NoPlan]
  ELSE IF r.kind = "components" /\ Len(r.components) > 0
  THEN [kind |-> "return",
        plan |-> [kind |-> "plan",
                  components |-> sortByPriority(r.components)]]
  ELSE [kind |-> "return", plan |-> MockPlan]

\* PlannerAgent.analyzeDesign of the CLI planner: the mock plan for 'demo'
\* and for a missing URL; otherwise the try block, whose errors the catch
\* answers with the mock plan.
analyzeDesignCli(url, r) ==
  IF url = "demo" \/ url = ""
  THEN [kind |-> "return", plan |-> MockPlan]
  ELSE LET t == analyzeDesignTry(r)
       IN IF t.kind = "throw"
          THEN [kind |-> "return", plan |-> MockPlan]
          ELSE t

\* Mutant: only a missing plan is refused, an empty one passes.
runPlanningPhaseNoLengthCheck(v, p) ==
  IF p.kind = "threw" THEN "PlannerError"
  ELSE IF p.kind = "null"
       THEN (IF v = "metrics" THEN "TypeError" ELSE "InvalidPlan")
  ELSE "none"

\* The check processDesign makes on the planner's answer; the error it
\* throws, or "none".
\*   metrics : this.metrics.dataSource = plan._source comes first and
\*             throws a TypeError on null; then !plan?.components?.length
\*   tracked : !plan || !plan.components || plan.components.length === 0
runPlanningPhase(v, p) ==
  IF p.kind = "threw" THEN "PlannerError"
  ELSE IF p.kind = "null"
       THEN (IF v = "metrics" THEN "TypeError" ELSE "InvalidPlan")
  ELSE IF Len(p.components) = 0 THEN "InvalidPlan"
  ELSE "none"

NumComponents == Len(plan.components)
Positions == 1..NumComponents

\* ------------------------------------------------------ groupByPriority
\* Mutant: the priority is not read and every component gets key 1.
TierKeyIgnoresPriority(c) == Num(1)

\* Mutant: a component that names dependencies is grouped one tier later.
TierKeyAfterDependencies(c) ==
  IF "dependencies" \in DOMAIN c /\ c.dependencies # {}
  THEN Num(c.priority.n + 1)
  ELSE c.priority

\* const p = c.priority || 1 : a falsy priority falls back to 1, every
\* other value is kept as it is and names the property of the groups
\* object.
TierKey(c) == IF Falsy(c.priority) THEN Num(1) ELSE c.priority

\* The keys of the groups object in the order the reduce creates them
\* over the first i components: `groups[p] = groups[p] || []` creates key p
\* at the first component that has it.
InsertionKeys(components, i) ==
  LET creating == SelectSeq([j \in 1..i |-> j],
                     LAMBDA j : \A h \in 1..(j - 1) :
                                  TierKey(components[h]) # TierKey(components[j]))
  IN [e \in 1..Len(creating) |-> TierKey(components[creating[e]])]

\* A property key that is a canonical array index: an integer in
\* 0 .. 2^32 - 2.  Every integer of the model lies below that upper end.
IsArrayIndex(k) == k.t = "number" /\ k.n >= 0

\* The elements of a set of integers in ascending numeric order.
Ascending(S) ==
  [r \in 1..Cardinality(S) |->
     CHOOSE x \in S : Cardinality({ y \in S : y < x }) = r - 1]

Descending(S) ==
  [r \in 1..Cardinality(S) |->
     CHOOSE x \in S : Cardinality({ y \in S : y > x }) = r - 1]

\* Mutant: the tiers come out highest priority value first.
EntryKeysDescending(components) ==
  LET ins == InsertionKeys(components, Len(components))
      desc == Descending({ ins[j].n : j \in 1..Len(ins) })
  IN [r \in 1..Len(desc) |-> Num(desc[r])]

\* Object.entries order of the keys: array-index keys ascending, then every
\* other key in creation order.
EntryKeys(components) ==
  LET ins == InsertionKeys(components, Len(components))
      idx == { ins[j].n : j \in { j \in 1..Len(ins) : IsArrayIndex(ins[j]) } }
      asc == Ascending(idx)
  IN [r \in 1..Len(asc) |-> Num(asc[r])]
       \o SelectSeq(ins, LAMBDA k : ~IsArrayIndex(k))

\* Mutant: `groups[p] = [c]` in place of the push; a key keeps its last
\* component only.
GroupOfLast(components, k) ==
  LET g == SelectSeq([i \in 1..Len(components) |-> i],
                     LAMBDA i : TierKey(components[i]) = k)
  IN << g[Len(g)] >>

\* Property names the groups object, a plain {}, inherits from
\* Object.prototype.  groups[p] is truthy for them before anything was
\* stored, so no array is created, and groups[p].push is undefined.
InheritedNames ==
  {"constructor", "__proto__", "toString", "valueOf", "hasOwnProperty"}

Inherited(k) == k.t = "string" /\ k.s \in InheritedNames

\* The reduce throws a TypeError (groups[p].push is not a function) at the
\* first component whose key is an inherited name.
groupByPriorityThrows(components) ==
  \E i \in 1..Len(components) : Inherited(TierKey(components[i]))

\* groups[k]: the positions of the components pushed under key k, in list
\* order.
GroupOf(components, k) ==
  SelectSeq([i \in 1..Len(components) |-> i],
            LAMBDA i : TierKey(components[i]) = k)

\* Object.entries(this.groupByPriority(components)) as a sequence of
\* [priority, group] entries, when the reduce does not throw.
groupByPriority(components) ==
  LET keys == EntryKeys(components)
  IN [e \in 1..Len(keys) |->
        [priority |-> keys[e], group |-> GroupOf(components, keys[e])]]

\* ---------------------------------------------------------------- chunk
\* Mutant: the end index is taken inclusive.
sliceInclusiveEnd(array, from, to) ==
  SubSeq(array, from + 1, Min(to + 1, Len(array)))

\* An index argument of slice made relative to the array: a negative one
\* counts from the end, and both ends are clamped to the array.
RelativeIndex(k, len) == IF k < 0 THEN Max(len + k, 0) ELSE Min(k, len)

\* array.slice(from, to), 0-based, end exclusive; empty when the start is
\* not before the end.
slice(array, from, to) ==
  SubSeq(array, RelativeIndex(from, Len(array)) + 1,
         RelativeIndex(to, Len(array)))

\* Mutant: the loop steps by 1, so consecutive slices overlap.
RECURSIVE ChunkFromStepOne(_, _, _)
ChunkFromStepOne(array, size, i) ==
  IF i < Len(array)
  THEN << slice(array, i, i + size) >> \o ChunkFromStepOne(array, size, i + 1)
  ELSE <<>>

\* for (let i = 0; i < array.length; i += size)
\*   chunks.push(array.slice(i, i + size))
RECURSIVE ChunkFrom(_, _, _)
ChunkFrom(array, size, i) ==
  IF i < Len(array)
  THEN << slice(array, i, i + size) >> \o ChunkFrom(array, size, i + size)
  ELSE <<>>

\* Mutant: a last slice shorter than the size is not pushed.
chunkDropsRemainder(array, size) ==
  SelectSeq(ChunkFrom(array, size.n, 0), LAMBDA c : Len(c) = size.n)

\* Mutant: the size is ignored and the whole tier forms one chunk.
chunkNoLimit(array, size) == << array >>

\* The chunks the loop returns.  For a size that is a number at least 1
\* they are the slices from 0 in steps of size.  For NaN and undefined,
\* i + size is NaN: the first slice ends at 0 and is empty, and i += size
\* makes the test i < array.length false, so a non-empty array gives one
\* empty chunk.
chunk(array, size) ==
  IF size.t = "number" THEN ChunkFrom(array, size.n, 0)
  ELSE IF Len(array) > 0 THEN << << >> >> ELSE << >>

\* ------------------------------------------------------- worker (leaf)
\* How the CLI subprocess of BaseAgent.execute can end: by itself with
\* status 0 or another status, or not within the 600000 ms of the timeout
\* option.  Assumed: the shell can be started and the output fits
\* maxBuffer, so the timeout is the one source of result.error.
ExecOutcomes == {"exit0", "exitNonZero", "timeout"}

\* result.error.message of spawnSync('sh', ...) when the timeout expired:
\* the child is killed and the error carries the code ETIMEDOUT.
resultErrorMessage(o) == "spawnSync sh ETIMEDOUT"

\* Mutant: no timeout option; a subprocess that does not end by itself is
\* waited for without end.
executeNoTimeout(o) ==
  IF o = "timeout" THEN [kind |-> "pending", error |-> << >>]
  ELSE [kind |-> "return", error |-> << >>]

\* BaseAgent.execute: spawnSync reports the expiry of its timeout through
\* result.error, and execute throws
\* Error(`CLI spawn error: ${result.error.message}`); a non-zero exit
\* status is only logged and the output returned.
execute(o) ==
  IF o = "timeout"
  THEN [kind |-> "throw",
        error |-> << "CLI spawn error: ", resultErrorMessage(o) >>]
  ELSE [kind |-> "return", error |-> << >>]

\* Mutant: no try/catch around execute; its error leaves buildComponent.
buildComponentRethrows(component, o) ==
  LET pascalName == toPascalCase(component.name)
      r == execute(o)
  IN IF r.kind = "return"
     THEN [kind |-> "return",
           value |-> [status |-> "success", component |-> pascalName]]
     ELSE [kind |-> "throw", error |-> r.error]

\* Mutant: the catch block returns the failed outcome without the error.
buildComponentNoError(component, o) ==
  LET pascalName == toPascalCase(component.name)
      r == execute(o)
  IN [kind |-> "return",
      value |-> [status |-> IF r.kind = "return" THEN "success" ELSE "failed",
                 component |-> pascalName]]

\* WorkerAgent.buildComponent: try { await this.execute(...) ; success }
\* catch (error) { failed }.  The promise it returns always fulfils.
buildComponent(component, o) ==
  LET pascalName == toPascalCase(component.name)
      r == execute(o)
  IN IF r.kind = "return"
     THEN [kind |-> "return",
           value |-> [status |-> "success", component |-> pascalName]]
     ELSE [kind |-> "return",
           value |-> [status |-> "failed", component |-> pascalName,
                      error |-> r.error]]

\* { ...base, ...over } : keys of over win.
Spread(base, over) ==
  [k \in DOMAIN base \cup DOMAIN over |->
     IF k \in DOMAIN over THEN over[k] ELSE base[k]]

\* ------------------------------------------------------- setupWorktrees
\* How `git worktree add` can end for a component.
GitOutcomes == {"ok", "alreadyCheckedOut", "failed"}

\* Mutant: the existsSync check is missing; git worktree add always runs.
setupWorktreeNoExistsCheck(exists, git) ==
  IF git = "ok" THEN "worktree" ELSE "absent"

\* Mutant: no try/catch in the loop; a git failure leaves setupWorktrees.
setupWorktreeNoCatch(exists, git) ==
  IF exists THEN "existing"
  ELSE IF git = "ok" THEN "worktree"
  ELSE "throw"

\* One turn of the for loop: an existing directory is skipped; otherwise
\* git branch (never fails: `|| true`) and git worktree add run, and a
\* failure is caught and logged, leaving no directory.
setupWorktree(exists, git) ==
  IF exists THEN "existing"
  ELSE IF git = "ok" THEN "worktree"
  ELSE "absent"

\* join(worktreeBase, name) and `feature/${name}`
joinWorktreeBase(name) == << "worktreeBase", name >>
branchNameOf(name) == << "feature/", name >>

\* The repository as one turn of the loop meets it, for one name:
\*   branch     refs/heads/feature/<name> exists
\*   dir        what is at worktreeBase/<name>: nothing, a worktree bound to
\*              the branch, or a directory that is no worktree
\*   elsewhere  the branch is checked out in another working tree
\*   commits    the repository has a commit to create a branch from
\* `git branch B 2>/dev/null || true`: creates B unless it exists or cannot
\* be created; never fails.
gitBranch(repo) ==
  IF repo.branch \/ ~repo.commits THEN repo ELSE [repo EXCEPT !.branch = TRUE]

\* `git worktree add P B` for a path P that does not exist.
gitWorktreeAdd(repo) ==
  IF ~repo.branch THEN "failed"
  ELSE IF repo.elsewhere THEN "alreadyCheckedOut"
  ELSE "ok"

\* One turn of the loop of setupWorktrees for `name` on repository `repo`:
\* the repository it leaves and what the turn did.
\*   metrics : existsSync, then git branch, then git worktree add
\*   tracked : git branch, then existsSync, then git worktree add
provision(v, repo, name) ==
  LET exists == repo.dir # "none"
      branched == IF v = "metrics" /\ exists THEN repo ELSE gitBranch(repo)
      outcome == setupWorktree(exists, gitWorktreeAdd(branched))
      after == IF outcome = "worktree"
               THEN [branched EXCEPT !.dir = "worktree"] ELSE branched
  IN [repo |-> after,
      call |-> [path |-> joinWorktreeBase(name),
                branchName |-> branchNameOf(name),
                outcome |-> outcome,
                branchCreated |-> after.branch /\ ~repo.branch,
                worktreeAdded |-> outcome = "worktree"]]

\* Mutant: the directory is never seen.
existsSyncNever(i) == FALSE

\* existsSync(join(worktreeBase, component.name)): the directory was found
\* or created when a component of that name was handled by setupWorktrees.
existsSync(i) ==
  \E h \in DOMAIN plan.components :
    /\ plan.components[h].name = plan.components[i].name
    /\ worktree[h] \in {"existing", "worktree"}

\* ------------------------------------------------------- executeWorkers
CurChunk == chunks[chunkIdx]

\* Mutant: the component's name is left out of the path.
worktreePathShared(i) == << "worktreeBase" >>

\* const worktreePath = join(worktreeBase, component.name)
worktreePath(i) == joinWorktreeBase(plan.components[i].name)

\* Mutant: the worktree path is used whether or not the directory exists.
WorkingDirForWorktreeOnly(i) == "worktree"

\* const workingDir = existsSync(worktreePath) ? worktreePath : projectRoot
\* (orchestrator.js: the same choice through buildInMainProject)
WorkingDirFor(i) == IF existsSync(i) THEN "worktree" ELSE "projectRoot"

\* Mutant: the callback throws when the worker reports status failed.
CallbackFailFast(v, component, dir, r) ==
  IF r.kind = "return" /\ r.value.status = "success"
  THEN [kind |-> "fulfil", value |-> r.value, completed |-> 1, failed |-> 0]
  ELSE [kind |-> "reject", value |-> [error |-> "build failed"],
        completed |-> 0, failed |-> 1]

\* Mutant: the callback counts every returned outcome as completed.
CallbackCountsCompleted(v, component, dir, r) ==
  [kind |-> "fulfil", value |-> r.value, completed |-> 1, failed |-> 0]

\* The async callback of chunk.map once buildComponent has settled with r:
\* what its promise settles with and how this.progress moves.
Callback(v, component, dir, r) ==
  IF v = "metrics"
  THEN IF r.kind = "return"
       THEN [kind |-> "fulfil", value |-> r.value,
             completed |-> IF r.value.status = "success" THEN 1 ELSE 0,
             failed |-> IF r.value.status = "success" THEN 0 ELSE 1]
       ELSE [kind |-> "reject", value |-> [error |-> r.error],
             completed |-> 0, failed |-> 0]
  ELSE IF dir = "projectRoot"
       THEN \* return this.buildInMainProject(component, designTokens)
            IF r.kind = "return"
            THEN [kind |-> "fulfil", value |-> r.value,
                  completed |-> 0, failed |-> 0]
            ELSE [kind |-> "reject", value |-> [error |-> r.error],
                  completed |-> 0, failed |-> 0]
       ELSE IF r.kind = "return"
            THEN [kind |-> "fulfil",
                  value |-> Spread([component |-> component.name], r.value),
                  completed |-> 1, failed |-> 0]
            ELSE [kind |-> "fulfil",
                  value |-> [component |-> component.name,
                             status |-> "failed", error |-> r.error],
                  completed |-> 0, failed |-> 1]

\* Mutant: setupWorktrees is not awaited.
SetupDoneNotAwaited == TRUE

\* await this.setupWorktrees(plan.components): the loop has handled every
\* component before processDesign goes on to executeWorkers
SetupDone == setupIdx = NumComponents

\* Mutant: the await waits for a promise of every component of the plan.
ChunkSettledWholePlan == \A i \in Positions : i \in DOMAIN settled

\* await Promise.all(promises): every promise of the chunk has fulfilled
ChunkSettled == \A j \in 1..Len(CurChunk) : CurChunk[j] \in DOMAIN settled

\* { success: true, plan, results, ... }
processDesignResult(rs) == [returned |-> TRUE, success |-> TRUE, results |-> rs]
NoResult == [returned |-> FALSE, success |-> FALSE, results |-> <<>>]

\* main() of index.js once processDesign has settled: process.exit(0) if
\* result.success, process.exit(1) otherwise and on a caught error.
main(ph, r) == IF ph = "done" /\ r.success THEN 0 ELSE 1

NoProvisioning ==
  [name |-> << >>,
   repo |-> [branch |-> FALSE, dir |-> "none", elsewhere |-> FALSE,
             commits |-> TRUE],
   calls |-> << >>]

\* The repositories setupWorktrees can be started on: a branch needs a
\* commit, and a bound worktree has its branch, checked out nowhere else.
Repositories ==
  { r \in [branch : BOOLEAN, dir : {"none", "worktree", "plain"},
           elsewhere : BOOLEAN, commits : BOOLEAN] :
      /\ r.branch => r.commits
      /\ r.dir = "worktree" => (r.branch /\ ~r.elsewhere) }

NoWork ==
  [step |-> "none", component |-> << >>, dir |-> "none", subprocess |-> "none",
   promise |-> << >>]

NoAgent ==
  [step |-> "none", maxIterations |-> 0, iterations |-> 0, calls |-> 0,
   conversationHistory |-> << >>, ret |-> << >>]

NoCli == [kind |-> "none", components |-> << >>]

NoLoop ==
  [step |-> "none", passed |-> << >>, array |-> << >>, i |-> Num(0),
   chunks |-> << >>, mapped |-> 0, started |-> << >>]

NoCalc ==
  [step |-> "none", components |-> << >>, entries |-> << >>, chunks |-> << >>]

\* ----------------------------------------------------------------- Init
\* Nothing provisioned, dispatched or recorded yet.
InitEngine ==
  /\ thrown = "none"
  /\ setupIdx = 0
  /\ worktree = [i \in 1..Len(ComponentNames) |-> "unexamined"]
  /\ groups = << >>
  /\ chunks = << >>
  /\ tierIdx = 0
  /\ chunkIdx = 0
  /\ mapped = 0
  /\ running = {}
  /\ workingDir = << >>
  /\ settled = << >>
  /\ raised = {}
  /\ invocations = [i \in 1..Len(ComponentNames) |-> 0]
  /\ results = << >>
  /\ metricsComponents = << >>
  /\ progress = [total |-> 0, completed |-> 0, failed |-> 0]
  /\ inProgress = << >>
  /\ ret = NoResult

InitRun ==
  /\ phase = "idle"
  /\ plannerCalls = 0
  /\ plan = NoPlan
  /\ InitEngine

\* A fresh checkout: an Orchestrator of either generation, constructed by
\* one of the callers, over an empty worktreeBase.
Init ==
  /\ variant \in Variants
  /\ \E cfg \in CallerConfigs : config = Constructor(variant, cfg)
  /\ fsFresh = TRUE
  /\ prov = NoProvisioning
  /\ calc = NoCalc
  /\ figmaUrl = "url"
  /\ work = NoWork
  /\ loop = NoLoop
  /\ cli = NoCli
  /\ agent = NoAgent
  /\ InitRun

\* ------------------------------------------- provisioning a name again
ProvisionInit ==
  /\ variant \in Variants
  /\ \E cfg \in CallerConfigs : config = Constructor(variant, cfg)
  /\ fsFresh = FALSE
  /\ \E n \in 1..MaxTasks, r \in Repositories :
       prov = [name |-> ComponentNames[n], repo |-> r, calls |-> << >>]
  /\ calc = NoCalc
  /\ figmaUrl = "url"
  /\ work = NoWork
  /\ loop = NoLoop
  /\ cli = NoCli
  /\ agent = NoAgent
  /\ InitRun

\* setupWorktrees handles the name once more.
ProvisionCall ==
  /\ Len(prov.calls) < MaxCalls
  /\ LET r == provision(variant, prov.repo, prov.name)
     IN prov' = [prov EXCEPT !.repo = r.repo, !.calls = Append(@, r.call)]
  /\ UNCHANGED << variant, config, fsFresh, calc, figmaUrl, work, loop, cli, agent,
                  phase,
                  thrown,
                  planVars,
                  setupVars, loopVars, taskVars, outVars, endVars >>

ProvisionSpec == ProvisionInit /\ [][ProvisionCall]_vars

\* ----------------------------- grouping and chunking any component list
\* groupByPriority reads nothing but c.priority and takes whatever array
\* it is handed: lists in any order, of 0..MaxTasks components, whose
\* priority is a negative number, 0, a positive number, NaN, absent, null
\* or a string.
Priorities ==
  { Num(n) : n \in (-1)..MaxPriority }
    \cup {NaN, Undefined, Null, Str("high"), Str("constructor")}

ComponentListsOfLength(n) ==
  { [i \in 1..n |-> Component(i, ps[i])] : ps \in [1..n -> Priorities] }

GroupingInit ==
  /\ variant \in Variants
  /\ \E cfg \in CallerConfigs : config = Constructor(variant, cfg)
  /\ fsFresh = TRUE
  /\ prov = NoProvisioning
  /\ \E n \in 0..MaxTasks : \E cs \in ComponentListsOfLength(n) :
       calc = [step |-> "input", components |-> cs, entries |-> << >>,
               chunks |-> << >>]
  /\ figmaUrl = "url"
  /\ work = NoWork
  /\ loop = NoLoop
  /\ cli = NoCli
  /\ agent = NoAgent
  /\ InitRun

\* const groups = this.groupByPriority(plan.components), read through
\* Object.entries(groups).
ApplyGroupByPriority ==
  /\ calc.step = "input"
  /\ calc' = IF groupByPriorityThrows(calc.components)
             THEN [calc EXCEPT !.step = "threw"]
             ELSE [calc EXCEPT !.step = "grouped",
                               !.entries = groupByPriority(calc.components)]
  /\ UNCHANGED << variant, config, fsFresh, prov, figmaUrl, work, loop, cli, agent,
                  phase,
                  thrown,
                  planVars,
                  setupVars, loopVars, taskVars, outVars, endVars >>

\* const chunks = this.chunk(group, this.config.maxParallelWorkers), for
\* the group of every entry.
ApplyChunk ==
  /\ calc.step = "grouped"
  /\ calc' = [calc EXCEPT
               !.step = "chunked",
               !.chunks = [e \in 1..Len(calc.entries) |->
                             chunk(calc.entries[e].group,
                                   config.maxParallelWorkers)]]
  /\ UNCHANGED << variant, config, fsFresh, prov, figmaUrl, work, loop, cli, agent,
                  phase,
                  thrown,
                  planVars,
                  setupVars, loopVars, taskVars, outVars, endVars >>

GroupingNext == ApplyGroupByPriority \/ ApplyChunk

\* Plan components as the planners describe them, with the fields the
\* dispatcher is handed besides name and priority: dependencies (names of
\* other components) and complexity.
Complexities == {"low", "medium"}

DependencySets == { {}, {ComponentNames[1]} }

DescribedListsOfLength(n) ==
  { [i \in 1..n |->
       [name |-> ComponentNames[i], priority |-> Num(ps[i]),
        dependencies |-> IF i = 1 THEN {} ELSE ds[i],
        complexity |-> cx[i]]] :
      ps \in [1..n -> 1..MaxPriority],
      ds \in [1..n -> DependencySets],
      cx \in [1..n -> Complexities] }

DescribedInit ==
  /\ variant \in Variants
  /\ \E cfg \in CallerConfigs : config = Constructor(variant, cfg)
  /\ fsFresh = TRUE
  /\ prov = NoProvisioning
  /\ \E n \in 0..MaxTasks : \E cs \in DescribedListsOfLength(n) :
       calc = [step |-> "input", components |-> cs, entries |-> << >>,
               chunks |-> << >>]
  /\ figmaUrl = "url"
  /\ work = NoWork
  /\ loop = NoLoop
  /\ cli = NoCli
  /\ agent = NoAgent
  /\ InitRun

DescribedSpec == DescribedInit /\ [][GroupingNext]_vars

GroupingSpec == GroupingInit /\ [][GroupingNext]_vars

\* ------------------------------------------- the chunk loop, turn by turn
\* a + b of two values that are numbers, NaN or undefined.
Plus(a, b) ==
  IF a.t = "number" /\ b.t = "number" THEN Num(a.n + b.n) ELSE NaN

\* a < n for a number, NaN or undefined a and an array length n.
LessThan(a, n) == a.t = "number" /\ a.n < n

\* The integer slice makes of an index argument: NaN counts as 0.
ToIntegerOrInfinity(a) == IF a.t = "number" THEN a.n ELSE 0

\* What a caller can put under the maxParallelWorkers key: an integer, as
\* parseInt gives for a numeral, NaN, as parseInt gives for anything else,
\* or undefined.
Limits == {Num(n) : n \in -1..MaxParallel} \cup {NaN, Undefined}

PassedConfigs == {ConfigWithout} \cup {ConfigWith(x) : x \in Limits}

\* The loop is stopped after this many turns; a loop that ends makes at
\* most one turn per element.
MaxTurns == MaxTasks + 2

\* An engine is constructed from a caller's config and executeWorkers
\* calls chunk(group, this.config.maxParallelWorkers) on a tier of 0 to
\* MaxTasks tasks.
ChunkInit ==
  /\ variant \in Variants
  /\ fsFresh = TRUE
  /\ prov = NoProvisioning
  /\ calc = NoCalc
  /\ figmaUrl = "url"
  /\ work = NoWork
  /\ cli = NoCli
  /\ agent = NoAgent
  /\ \E cfg \in PassedConfigs, n \in 0..MaxTasks :
       /\ config = Constructor(variant, cfg)
       /\ loop = [step |-> "test", passed |-> cfg, array |-> [k \in 1..n |-> k],
                  i |-> Num(0), chunks |-> << >>, mapped |-> 0,
                  started |-> [k \in 1..n |-> 0]]
  /\ InitRun

\* i < array.length holds: chunks.push(array.slice(i, i + size)); i += size.
ChunkTurn ==
  /\ loop.step = "test"
  /\ LessThan(loop.i, Len(loop.array))
  /\ Len(loop.chunks) < MaxTurns
  /\ LET size == config.maxParallelWorkers
     IN loop' = [loop EXCEPT
                   !.chunks = Append(@, slice(loop.array,
                                              ToIntegerOrInfinity(loop.i),
                                              ToIntegerOrInfinity(
                                                Plus(loop.i, size)))),
                   !.i = Plus(@, size)]
  /\ UNCHANGED << variant, config, fsFresh, prov, calc, figmaUrl, work, cli, agent, phase,
                  thrown, planVars, setupVars, loopVars, taskVars, outVars,
                  endVars >>

\* i < array.length fails: return chunks.
ChunkReturn ==
  /\ loop.step = "test"
  /\ ~LessThan(loop.i, Len(loop.array))
  /\ loop' = [loop EXCEPT !.step = "returned"]
  /\ UNCHANGED << variant, config, fsFresh, prov, calc, figmaUrl, work, cli, agent, phase,
                  thrown, planVars, setupVars, loopVars, taskVars, outVars,
                  endVars >>

\* for (const chunk of chunks): chunk.map starts the callback of every
\* member of the next chunk, and Promise.all awaits them.
MapChunk ==
  /\ loop.step = "returned"
  /\ loop.mapped < Len(loop.chunks)
  /\ LET members == loop.chunks[loop.mapped + 1]
     IN loop' = [loop EXCEPT
                   !.mapped = @ + 1,
                   !.started =
                     [k \in DOMAIN @ |->
                        @[k] + Cardinality({m \in DOMAIN members :
                                              members[m] = k})]]
  /\ UNCHANGED << variant, config, fsFresh, prov, calc, figmaUrl, work, cli, agent, phase,
                  thrown, planVars, setupVars, loopVars, taskVars, outVars,
                  endVars >>

\* The loop over the chunks has no chunk left.
ChunksExhausted ==
  /\ loop.step = "returned"
  /\ loop.mapped = Len(loop.chunks)
  /\ loop' = [loop EXCEPT !.step = "done"]
  /\ UNCHANGED << variant, config, fsFresh, prov, calc, figmaUrl, work, cli, agent, phase,
                  thrown, planVars, setupVars, loopVars, taskVars, outVars,
                  endVars >>

ChunkNext == ChunkTurn \/ ChunkReturn \/ MapChunk \/ ChunksExhausted

ChunkSpec == ChunkInit /\ [][ChunkNext]_vars

\* The engine runs on one thread that nothing preempts: a loop that can
\* take its next step takes it.
ChunkFairSpec == ChunkSpec /\ WF_vars(ChunkNext)

\* -------------------------------------------------------------- actions
\* processDesign is entered and asks the planner for the plan.
CallPlanner ==
  /\ phase = "idle"
  /\ phase' = "planning"
  /\ plannerCalls' = plannerCalls + 1
  /\ UNCHANGED << envVars, thrown, plan, setupVars, loopVars, taskVars,
                  outVars, endVars >>

\* analyzeDesign settles; the plan is checked.
PlannerSettles ==
  /\ phase = "planning"
  /\ \E p \in analyzeDesign(figmaUrl) :
       /\ plan' = p
       /\ thrown' = runPlanningPhase(variant, p)
       /\ phase' = IF runPlanningPhase(variant, p) = "none"
                   THEN "provisioning" ELSE "aborted"
  /\ UNCHANGED << envVars, plannerCalls, setupVars, loopVars, taskVars,
                  outVars, endVars >>

\* One turn of the for loop of setupWorktrees.
Provision ==
  /\ phase = "provisioning"
  /\ setupIdx < NumComponents
  /\ \E exists \in (IF existsSync(setupIdx + 1) THEN {TRUE}
                    ELSE IF fsFresh THEN {FALSE} ELSE BOOLEAN),
        git \in GitOutcomes :
       LET r == setupWorktree(exists, git)
       IN IF r = "throw"
          THEN \* an error leaving the loop reaches the catch of processDesign
               /\ phase' = "aborted"
               /\ thrown' = "WorktreeError"
               /\ UNCHANGED setupVars
          ELSE /\ worktree' = [worktree EXCEPT ![setupIdx + 1] = r]
               /\ setupIdx' = setupIdx + 1
               /\ UNCHANGED << phase, thrown >>
  /\ UNCHANGED << envVars, planVars, loopVars, taskVars, outVars, endVars >>

\* setupWorktrees has returned; executeWorkers is entered: the groups are
\* built and the first tier is chunked.
BeginDispatch ==
  /\ phase = "provisioning"
  /\ SetupDone
  /\ progress' = [progress EXCEPT !.total = NumComponents]
  /\ mapped' = 0
  /\ LET entries == groupByPriority(plan.components)
     IN /\ groups' = entries
        /\ IF Len(entries) = 0
           THEN \* no entry to loop over: executeWorkers returns []
                /\ phase' = "finalizing"
                /\ UNCHANGED << chunks, tierIdx, chunkIdx >>
           ELSE /\ phase' = "dispatching"
                /\ chunks' = chunk(entries[1].group, config.maxParallelWorkers)
                /\ tierIdx' = 1
                /\ chunkIdx' = 1
  /\ UNCHANGED << envVars, thrown, planVars, setupVars, taskVars, results,
                  metricsComponents, inProgress, endVars >>

\* chunk.map invokes the callback of the next component of the chunk, which
\* runs up to its await of worker.buildComponent.
StartTask ==
  /\ phase = "dispatching"
  /\ mapped < Len(CurChunk)
  /\ LET i == CurChunk[mapped + 1]
         dir == WorkingDirFor(i)
     IN /\ running' = running \cup {i}
        /\ workingDir' = (i :> dir) @@ workingDir
        /\ invocations' = [invocations EXCEPT ![i] = @ + 1]
        /\ inProgress' = IF variant = "tracked" /\ dir = "worktree"
                         THEN Append(inProgress, plan.components[i].name)
                         ELSE inProgress
  /\ mapped' = mapped + 1
  /\ UNCHANGED << envVars, phase, thrown, planVars, setupVars, groups, chunks,
                  tierIdx, chunkIdx, settled, raised, results,
                  metricsComponents, progress, endVars >>

\* A buildComponent call of the chunk settles and its callback runs on.
FinishTask ==
  /\ phase = "dispatching"
  /\ mapped = Len(CurChunk)
  /\ \E i \in running, o \in ExecOutcomes :
       LET c == plan.components[i]
           cb == Callback(variant, c, workingDir[i], buildComponent(c, o))
       IN /\ running' = running \ {i}
          /\ raised' = IF execute(o).kind = "throw"
                       THEN raised \cup {i} ELSE raised
          /\ IF cb.kind = "fulfil"
             THEN /\ settled' = (i :> cb.value) @@ settled
                  /\ UNCHANGED << phase, thrown >>
             ELSE \* Promise.all rejects: executeWorkers and processDesign throw
                  /\ phase' = "aborted"
                  /\ thrown' = "WorkerError"
                  /\ UNCHANGED settled
          /\ progress' = [progress EXCEPT
                            !.completed = @ + cb.completed,
                            !.failed = @ + cb.failed]
          /\ metricsComponents' =
               IF variant = "metrics" /\ cb.kind = "fulfil"
               THEN Append(metricsComponents,
                           [name |-> c.name, status |-> cb.value.status])
               ELSE metricsComponents
          /\ inProgress' = SelectSeq(inProgress, LAMBDA n : n # c.name)
  /\ UNCHANGED << envVars, planVars, setupVars, loopVars, workingDir,
                  invocations, results, endVars >>

\* Mutant: the values of the chunk in reverse order.
chunkResultsReversed ==
  [j \in 1..Len(CurChunk) |-> settled[CurChunk[Len(CurChunk) + 1 - j]]]

\* const chunkResults = await Promise.all(promises): the values of the
\* promises in the order of the promises, which is the order of the chunk.
chunkResults == [j \in 1..Len(CurChunk) |-> settled[CurChunk[j]]]

\* await Promise.all(promises) resumes; results.push(...chunkResults); the
\* loops move to the next chunk, the next tier, or executeWorkers returns.
AwaitChunk ==
  /\ phase = "dispatching"
  /\ mapped = Len(CurChunk)
  /\ ChunkSettled
  /\ results' = results \o chunkResults
  /\ mapped' = 0
  /\ IF chunkIdx < Len(chunks)
     THEN /\ chunkIdx' = chunkIdx + 1
          /\ UNCHANGED << chunks, tierIdx, phase >>
     ELSE IF tierIdx < Len(groups)
     THEN /\ tierIdx' = tierIdx + 1
          /\ chunks' = chunk(groups[tierIdx + 1].group, config.maxParallelWorkers)
          /\ chunkIdx' = 1
          /\ UNCHANGED phase
     ELSE /\ phase' = "finalizing"
          /\ UNCHANGED << chunks, tierIdx, chunkIdx >>
  /\ UNCHANGED << envVars, thrown, planVars, setupVars, groups, taskVars,
                  metricsComponents, progress, inProgress, endVars >>

\* printSummary / generateReport, then processDesign returns.
Summarize ==
  /\ phase = "finalizing"
  /\ phase' = "done"
  /\ ret' = processDesignResult(results)
  /\ UNCHANGED << envVars, thrown, planVars, setupVars, loopVars, taskVars,
                  outVars >>

\* The exit code of the process once processDesign has settled.
Settled == phase \in {"done", "aborted"}
exitCode == main(phase, ret)

Next ==
  \/ CallPlanner
  \/ PlannerSettles
  \/ Provision
  \/ BeginDispatch
  \/ StartTask
  \/ FinishTask
  \/ AwaitChunk
  \/ Summarize

Spec == Init /\ [][Next]_vars

\* ------------------------------------- processDesign on a used instance
\* processDesign is called again on the Orchestrator whose processDesign
\* has returned.  It has no guard and resets nothing: the locals (plan,
\* results, the loops) are new, this.progress and this.metrics.components
\* are the instance's, and progress.total alone is assigned again (in
\* runComponentGenerationPhase).  The directories of the first run are on
\* disk, so worktreeBase is no longer known to be empty.
CallAgain ==
  /\ phase = "done"
  /\ plannerCalls < MaxRuns
  /\ phase' = "planning"
  /\ plannerCalls' = plannerCalls + 1
  /\ plan' = NoPlan
  /\ fsFresh' = FALSE
  /\ setupIdx' = 0
  /\ worktree' = [i \in DOMAIN worktree |-> "unexamined"]
  /\ groups' = << >>
  /\ chunks' = << >>
  /\ tierIdx' = 0
  /\ chunkIdx' = 0
  /\ mapped' = 0
  /\ running' = {}
  /\ workingDir' = << >>
  /\ settled' = << >>
  /\ raised' = {}
  /\ invocations' = [i \in DOMAIN invocations |-> 0]
  /\ results' = << >>
  /\ ret' = NoResult
  /\ UNCHANGED << variant, config, prov, calc, figmaUrl, work, loop, cli, agent,
                  thrown,
                  metricsComponents, progress, inProgress >>

ReuseNext == Next \/ CallAgain

ReuseSpec == Init /\ [][ReuseNext]_vars

\* ---------------------------------------------- a run over a used disk
\* A run whose first component meets a repository in any state: its branch
\* may exist or be checked out elsewhere, and worktreeBase/<name> may hold
\* nothing, a worktree bound to the branch, or a directory that is none.
\* The other components meet a fresh repository.
FoundInit ==
  /\ variant \in Variants
  /\ \E cfg \in CallerConfigs : config = Constructor(variant, cfg)
  /\ fsFresh = FALSE
  /\ \E r \in Repositories :
       prov = [name |-> ComponentNames[1], repo |-> r, calls |-> << >>]
  /\ calc = NoCalc
  /\ figmaUrl = "url"
  /\ work = NoWork
  /\ loop = NoLoop
  /\ cli = NoCli
  /\ agent = NoAgent
  /\ InitRun

\* One turn of the for loop of setupWorktrees, on the repository as found.
ProvisionFound ==
  /\ phase = "provisioning"
  /\ setupIdx < NumComponents
  /\ LET i == setupIdx + 1
         name == plan.components[i].name
     IN IF name = prov.name
        THEN LET r == provision(variant, prov.repo, name)
             IN /\ worktree' = [worktree EXCEPT ![i] = r.call.outcome]
                /\ prov' = [prov EXCEPT !.repo = r.repo,
                                        !.calls = Append(@, r.call)]
        ELSE /\ \E git \in GitOutcomes :
                  worktree' = [worktree EXCEPT
                                 ![i] = setupWorktree(existsSync(i), git)]
             /\ prov' = prov
  /\ setupIdx' = setupIdx + 1
  /\ UNCHANGED << variant, config, fsFresh, calc, figmaUrl, work, loop, cli, agent,
                  phase,
                  thrown, planVars, loopVars, taskVars, outVars, endVars >>

FoundNext ==
  \/ CallPlanner
  \/ PlannerSettles
  \/ ProvisionFound
  \/ BeginDispatch
  \/ StartTask
  \/ FinishTask
  \/ AwaitChunk
  \/ Summarize

FoundSpec == FoundInit /\ [][FoundNext]_vars

\* ------------------------------------------- a run with the CLI planner
\* processDesign of an engine whose planner is the CLI planner, called
\* with 'demo', no URL or a URL, the CLI call ending in each possible way.
CliPlannerInit ==
  /\ variant \in Variants
  /\ \E cfg \in CallerConfigs : config = Constructor(variant, cfg)
  /\ fsFresh = TRUE
  /\ prov = NoProvisioning
  /\ calc = NoCalc
  /\ figmaUrl \in {"demo", "", "url"}
  /\ work = NoWork
  /\ loop = NoLoop
  /\ \E n \in 0..MaxTasks : cli \in CliResultsOfLength(n)
  /\ agent = NoAgent
  /\ InitRun

\* analyzeDesign of the CLI planner settles; the plan is checked.
CliPlannerSettles ==
  /\ phase = "planning"
  /\ LET a == analyzeDesignCli(figmaUrl, cli)
         p == IF a.kind = "return" THEN a.plan ELSE PlannerThrew
     IN /\ plan' = p
        /\ thrown' = runPlanningPhase(variant, p)
        /\ phase' = IF runPlanningPhase(variant, p) = "none"
                    THEN "provisioning" ELSE "aborted"
  /\ UNCHANGED << envVars, plannerCalls, setupVars, loopVars, taskVars,
                  outVars, endVars >>

\* The planning phase alone: what follows it is the run of Spec.
CliPlannerNext == CallPlanner \/ CliPlannerSettles

CliPlannerSpec == CliPlannerInit /\ [][CliPlannerNext]_vars

\* ------------------------------------------- BaseAgent.run, tool loop
\* The largest maxIterations a caller passes and the most tool_use blocks
\* of one response.
MaxIterations == 3
MaxToolCalls == 2

\* The ids the model gives its tool_use blocks.
ToolUseIds == {"toolu_a", "toolu_b"}

\* The tool_use blocks of one response: up to MaxToolCalls blocks with
\* distinct ids; `throws` tells whether executeTool throws for the block.
ToolUseBlocks ==
  UNION { { u \in [1..n -> [id : ToolUseIds, throws : BOOLEAN]] :
              \A k \in 1..n, l \in 1..n : k # l => u[k].id # u[l].id } :
          n \in 0..MaxToolCalls }

\* Mutant: a tool that throws gets no tool_result.
processToolCallsSkipsErrors(toolUseBlocks) ==
  LET done == SelectSeq(toolUseBlocks, LAMBDA u : ~u.throws)
  IN [k \in 1..Len(done) |->
        [type |-> "tool_result", tool_use_id |-> done[k].id, is_error |-> FALSE]]

\* processToolCalls: one tool_result per block, in order, carrying the
\* block's id; is_error is set in the catch of executeTool.
processToolCalls(toolUseBlocks) ==
  [k \in 1..Len(toolUseBlocks) |->
     [type |-> "tool_result", tool_use_id |-> toolUseBlocks[k].id,
      is_error |-> toolUseBlocks[k].throws]]

UserMessage == [role |-> "user", content |-> << "userMessage" >>]
Message(role, content) == [role |-> role, content |-> content]

\* run(userMessage, maxIterations) is entered: the user message is pushed
\* and iterations is 0.
ToolLoopInit ==
  /\ variant \in Variants
  /\ \E cfg \in CallerConfigs : config = Constructor(variant, cfg)
  /\ fsFresh = TRUE
  /\ prov = NoProvisioning
  /\ calc = NoCalc
  /\ figmaUrl = "url"
  /\ work = NoWork
  /\ loop = NoLoop
  /\ cli = NoCli
  /\ \E m \in 0..MaxIterations :
       agent = [step |-> "loop", maxIterations |-> m, iterations |-> 0,
                calls |-> 0, conversationHistory |-> << UserMessage >>,
                ret |-> << >>]
  /\ InitRun

\* One turn of the while loop in which the model call throws: the catch
\* rethrows.
ModelCallThrows ==
  /\ agent.step = "loop"
  /\ agent.iterations < agent.maxIterations
  /\ agent' = [agent EXCEPT !.iterations = @ + 1, !.calls = @ + 1,
                            !.step = "threw"]
  /\ UNCHANGED << variant, config, fsFresh, prov, calc, figmaUrl, work, loop,
                  cli, phase, thrown, planVars, setupVars, loopVars, taskVars,
                  outVars, endVars >>

\* One turn of the while loop with a response: the response is pushed to
\* the history; without tool_use blocks run returns success, otherwise
\* the tool results are pushed and the loop goes on.
ModelResponds ==
  /\ agent.step = "loop"
  /\ agent.iterations < agent.maxIterations
  /\ \E toolUseBlocks \in ToolUseBlocks :
       LET pushed == Append(agent.conversationHistory,
                            Message("assistant", toolUseBlocks))
       IN IF Len(toolUseBlocks) = 0
          THEN agent' = [agent EXCEPT
                           !.iterations = @ + 1, !.calls = @ + 1,
                           !.conversationHistory = pushed,
                           !.step = "returned",
                           !.ret = [success |-> TRUE,
                                    iterations |-> agent.iterations + 1]]
          ELSE agent' = [agent EXCEPT
                           !.iterations = @ + 1, !.calls = @ + 1,
                           !.conversationHistory =
                             Append(pushed,
                                    Message("user",
                                            processToolCalls(toolUseBlocks)))]
  /\ UNCHANGED << variant, config, fsFresh, prov, calc, figmaUrl, work, loop,
                  cli, phase, thrown, planVars, setupVars, loopVars, taskVars,
                  outVars, endVars >>

\* iterations < maxIterations fails: run returns success false.
IterationsExhausted ==
  /\ agent.step = "loop"
  /\ ~(agent.iterations < agent.maxIterations)
  /\ agent' = [agent EXCEPT
                 !.step = "returned",
                 !.ret = [success |-> FALSE, iterations |-> agent.iterations]]
  /\ UNCHANGED << variant, config, fsFresh, prov, calc, figmaUrl, work, loop,
                  cli, phase, thrown, planVars, setupVars, loopVars, taskVars,
                  outVars, endVars >>

ToolLoopNext == ModelCallThrows \/ ModelResponds \/ IterationsExhausted

ToolLoopSpec == ToolLoopInit /\ [][ToolLoopNext]_vars

\* --------------------------------------------- one callback of chunk.map
\* The callback for one component of a plan, in the working directory the
\* dispatcher chose, with the CLI subprocess ending in each possible way.
WorkerInit ==
  /\ variant \in Variants
  /\ \E cfg \in CallerConfigs : config = Constructor(variant, cfg)
  /\ fsFresh = TRUE
  /\ prov = NoProvisioning
  /\ calc = NoCalc
  /\ figmaUrl = "url"
  /\ \E i \in 1..MaxTasks, p \in 1..MaxPriority,
        dir \in {"worktree", "projectRoot"}, o \in ExecOutcomes :
       work = [step |-> "called", component |-> Component(i, Num(p)),
               dir |-> dir, subprocess |-> o, promise |-> << >>]
  /\ loop = NoLoop
  /\ cli = NoCli
  /\ agent = NoAgent
  /\ InitRun

\* spawnSync returns, execute and buildComponent settle, and the callback
\* runs to its end.
CallbackSettles ==
  /\ work.step = "called"
  /\ execute(work.subprocess).kind # "pending"
  /\ work' = [work EXCEPT
               !.step = "settled",
               !.promise = Callback(variant, work.component, work.dir,
                                    buildComponent(work.component,
                                                   work.subprocess))]
  /\ UNCHANGED << variant, config, fsFresh, prov, calc, figmaUrl, loop, cli, agent,
                  phase,
                  thrown, planVars, setupVars, loopVars, taskVars, outVars,
                  endVars >>

WorkerSpec == WorkerInit /\ [][CallbackSettles]_vars

\* ------------------------------------------- a plan that repeats a name
\* Nothing in the planners or in processDesign makes the names of
\* plan.components distinct.  Plans of 2..MaxTasks components, sorted by
\* priority, in which some name occurs twice.
RepeatingPlans ==
  UNION { { [kind |-> "plan",
             components |-> [i \in 1..n |->
                               [name |-> ComponentNames[nm[i]],
                                priority |-> Num(ps[i])]]] :
              nm \in { f \in [1..n -> 1..(MaxTasks - 1)] :
                         \E i \in 1..n, j \in 1..n : i < j /\ f[i] = f[j] },
              ps \in SortedPriorityLists(n) } :
          n \in 2..MaxTasks }

\* processDesign has received such a plan from analyzeDesign and goes on
\* to setupWorktrees.
RepeatingInit ==
  /\ variant \in Variants
  /\ \E cfg \in CallerConfigs : config = Constructor(variant, cfg)
  /\ fsFresh = TRUE
  /\ prov = NoProvisioning
  /\ calc = NoCalc
  /\ figmaUrl = "url"
  /\ work = NoWork
  /\ loop = NoLoop
  /\ cli = NoCli
  /\ agent = NoAgent
  /\ phase = "provisioning"
  /\ plannerCalls = 1
  /\ plan \in RepeatingPlans
  /\ InitEngine

RepeatingNext ==
  \/ Provision
  \/ BeginDispatch
  \/ StartTask
  \/ FinishTask
  \/ AwaitChunk
  \/ Summarize

RepeatingSpec == RepeatingInit /\ [][RepeatingNext]_vars

\* ------------------------------------------------------------ the demo
\* scripts/demo.js: new Orchestrator({ maxParallelWorkers: 2, ... }) and
\* processDesign('demo'); the same call on the Orchestrator of either
\* generation.
DemoMaxParallel == 2

DemoInit ==
  /\ variant \in Variants
  /\ config = Constructor(variant, ConfigWith(Num(DemoMaxParallel)))
  /\ fsFresh = TRUE
  /\ prov = NoProvisioning
  /\ calc = NoCalc
  /\ figmaUrl = "demo"
  /\ work = NoWork
  /\ loop = NoLoop
  /\ cli = NoCli
  /\ agent = NoAgent
  /\ InitRun

DemoSpec == DemoInit /\ [][Next]_vars

\* ======================================================================
\* Properties
\* ======================================================================
Started == running \cup DOMAIN settled
Terminal(i) == i \in DOMAIN settled
TierOf(i) == TierKey(plan.components[i]).n
Failed(i) == Terminal(i) /\ settled[i].status = "failed"
Succeeded(i) == Terminal(i) /\ settled[i].status = "success"

\* Position of component i inside its tier (1-based, list order) and the
\* number of the batch that position falls in under the configured limit.
PosInTier(i) == Cardinality({ u \in 1..i : TierOf(u) = TierOf(i) })
BatchNo(i) == (PosInTier(i) - 1) \div config.maxParallelWorkers.n
SameBatch(i, u) == TierOf(i) = TierOf(u) /\ BatchNo(i) = BatchNo(u)

\* C1 -- Tier ordering: a component whose worker call has started finds
\* every component of every lower-valued priority tier already terminal,
\* whatever the statuses of those components.
C1_TierOrdering ==
  \A t \in Started : \A u \in Positions :
    TierOf(u) < TierOf(t) => Terminal(u)

\* A tier-2 worker runs after two tier-1 components ended, one of them failed.
C1_Witness ==
  \E t \in running :
    /\ Cardinality({ u \in Positions : TierOf(u) < TierOf(t) }) >= 2
    /\ \E u \in Positions : TierOf(u) < TierOf(t) /\ Failed(u)

\* C2 -- Batch bound: the number of buildComponent calls that have started
\* and not finished never exceeds config.maxParallelWorkers.
C2_BatchBound == Cardinality(running) <= config.maxParallelWorkers.n

\* The limit is reached while a component of the same tier still waits.
C2_Witness ==
  /\ Cardinality(running) = config.maxParallelWorkers.n
  /\ \E t \in running : \E u \in Positions \ Started : TierOf(u) = TierOf(t)

\* C3 -- Batch ordering: within a tier, a component of a later batch has
\* not started unless every component of every earlier batch is terminal.
C3_BatchOrdering ==
  \A t \in Started : \A u \in Positions :
    (TierOf(u) = TierOf(t) /\ BatchNo(u) < BatchNo(t)) => Terminal(u)

\* A second batch of a tier runs after a first batch of two ended, one failed.
C3_Witness ==
  \E t \in running :
    /\ BatchNo(t) > 0
    /\ \E u \in Positions, w \in Positions :
         /\ u # w /\ SameBatch(u, w)
         /\ TierOf(u) = TierOf(t) /\ BatchNo(u) < BatchNo(t)
         /\ Failed(u) /\ Succeeded(w)

\* The entries of results that belong to component i: the worker names its
\* outcome with the PascalCase name, the orchestrator's own catch with the
\* plan's name.
PascalOf ==
  [n \in { ComponentNames[k] : k \in 1..Len(ComponentNames) } |-> toPascalCase(n)]

ResultsFor(i) ==
  LET name == plan.components[i].name
  IN { j \in 1..Len(results) : results[j].component \in { name, PascalOf[name] } }

\* The status component i has earned: failed exactly when its execute threw.
OwnStatus(i) == IF i \in raised THEN "failed" ELSE "success"

\* C4 -- Isolation of failure: when execute throws inside the worker of a
\* component B, no error leaves executeWorkers, B ends with status failed,
\* and every component of B's batch was started, is running or terminal
\* with its own status, and at the summary has exactly one entry in results
\* carrying that status.
C4_IsolationOfFailure ==
  /\ thrown # "WorkerError"
  /\ \A b \in raised :
       /\ Failed(b)
       /\ \A u \in Positions :
            SameBatch(b, u) =>
              /\ u \in Started
              /\ Terminal(u) => settled[u].status = OwnStatus(u)
              /\ ~Terminal(u) =>
                   (u \in running /\ phase = "dispatching"
                      /\ mapped = Len(CurChunk))
              /\ phase \in {"finalizing", "done"} =>
                   /\ Cardinality(ResultsFor(u)) = 1
                   /\ \A j \in ResultsFor(u) : results[j].status = OwnStatus(u)

\* A run has returned a report in which a failed component and a successful
\* component of the same batch both appear.
C4_Witness ==
  /\ phase = "done"
  /\ \E b \in raised, u \in Positions \ raised :
       /\ SameBatch(b, u)
       /\ \E j \in ResultsFor(b) : ret.results[j].status = "failed"
       /\ \E j \in ResultsFor(u) : ret.results[j].status = "success"

\* A step of the dispatcher loop: a callback of chunk.map is invoked, a
\* worker call settles, or the await of the chunk resumes.
DispatcherStep == StartTask \/ FinishTask \/ AwaitChunk

\* C5 -- No fail-fast: once the worker of a component has failed, the run
\* is not aborted, the dispatcher can take its next step for as long as a
\* component of the plan has not been started, and the dispatching is left
\* only with every component of the plan started.
C5_NoFailFast ==
  raised # {} =>
    /\ phase \in {"dispatching", "finalizing", "done"}
    /\ (phase = "dispatching" /\ Started # Positions) => ENABLED DispatcherStep
    /\ phase \in {"finalizing", "done"} => Started = Positions

\* A component runs although a component of an earlier batch ended failed.
C5_Witness ==
  \E t \in running : \E u \in Positions :
    /\ Failed(u)
    /\ \/ TierOf(u) < TierOf(t)
       \/ (TierOf(u) = TierOf(t) /\ BatchNo(u) < BatchNo(t))

\* C6 -- Outcome completeness: at the summary step results holds exactly one
\* outcome per component of the plan: as many entries as components, none
\* missing, none twice.
C6_OutcomeCompleteness ==
  phase \in {"finalizing", "done"} =>
    /\ Len(results) = NumComponents
    /\ \A i \in Positions : Cardinality(ResultsFor(i)) = 1

\* The summary is reached for a plan of three or more components in two or
\* more tiers, one tier needing more than one chunk, one component failed.
C6_Witness ==
  /\ phase = "finalizing"
  /\ NumComponents >= 3
  /\ Len(groups) >= 2
  /\ \E i \in Positions : BatchNo(i) > 0
  /\ \E i \in Positions : Failed(i)

\* C7 -- Fallback degradation: a component whose worktree directory is
\* absent after setupWorktrees does not abort the run, is started with the
\* project root as working directory, and has its entry in results at the
\* summary.
C7_FallbackDegradation ==
  \A x \in Positions :
    worktree[x] = "absent" =>
      /\ phase # "aborted"
      /\ x \in Started => workingDir[x] = "projectRoot"
      /\ phase \in {"finalizing", "done"} =>
           (x \in Started /\ Cardinality(ResultsFor(x)) = 1)

\* A report was returned that holds a component built in the project root
\* next to one built in its worktree.
C7_Witness ==
  /\ phase = "done"
  /\ \E x \in Positions, y \in Positions :
       /\ worktree[x] = "absent" /\ workingDir[x] = "projectRoot"
       /\ worktree[y] = "worktree" /\ workingDir[y] = "worktree"
       /\ \E j \in ResultsFor(x) : ret.results[j] = settled[x]

\* The planner answered with no plan or with a plan of zero components.
PlanMissing ==
  \/ plan.kind = "null"
  \/ (plan.kind = "plan" /\ Len(plan.components) = 0)

\* C8 -- Empty plan aborts: when the planner answers with no plan or with
\* zero components, processDesign throws and returns nothing, no worktree
\* has been examined or created and no worker has been started.
C8_EmptyPlanAborts ==
  PlanMissing =>
    /\ phase = "aborted"
    /\ thrown \in {"InvalidPlan", "TypeError"}
    /\ ~ret.returned
    /\ setupIdx = 0
    /\ \A i \in DOMAIN worktree : worktree[i] = "unexamined"
    /\ Started = {}
    /\ results = << >>

\* The planner answered with an empty component list and the run aborted.
C8_Witness ==
  /\ plan.kind = "plan"
  /\ Len(plan.components) = 0
  /\ phase = "aborted"
  /\ thrown = "InvalidPlan"

PhaseRank(ph) ==
  CASE ph = "idle" -> 0
    [] ph = "planning" -> 1
    [] ph = "provisioning" -> 2
    [] ph = "dispatching" -> 3
    [] ph = "finalizing" -> 4
    [] ph = "done" -> 5
    [] OTHER -> 6

\* C9 -- Phase order: the phases are entered one after the other in the
\* order planning, provisioning, dispatching, finalizing, done (or the run
\* aborts); the planner is called once; setupWorktrees has handled every
\* component before a worker starts; the summary comes after the last chunk
\* of the last tier has settled.
C9_PhaseOrder ==
  /\ [](/\ plannerCalls = (IF phase = "idle" THEN 0 ELSE 1)
        /\ Started # {} =>
             /\ setupIdx = NumComponents
             /\ \A i \in Positions : worktree[i] # "unexamined"
        /\ phase \in {"finalizing", "done"} =>
             /\ running = {}
             /\ DOMAIN settled = Positions
             /\ tierIdx = Len(groups)
             /\ chunkIdx = Len(chunks)
        /\ ret.returned => phase = "done")
  /\ [][phase' # phase =>
          \/ phase' = "aborted"
          \/ PhaseRank(phase') = PhaseRank(phase) + 1]_vars

\* A run over several tiers has gone through every phase and returned.
C9_Witness ==
  /\ phase = "done"
  /\ plannerCalls = 1
  /\ ret.returned
  /\ NumComponents >= 3
  /\ Len(groups) >= 2

\* C10 -- Exit/status convention: a run that returns a report has its
\* success flag true and exit code 0 exactly when no outcome of the report
\* has status failed.
C10_ExitConvention ==
  phase = "done" =>
    ((ret.success /\ exitCode = 0)
       <=> (\A j \in 1..Len(ret.results) : ret.results[j].status # "failed"))

\* The event loop runs every continuation that is ready, and every CLI call
\* ends (spawnSync is given a timeout), so a run does not stop for good
\* while a step of it is possible.
FairSpec == Spec /\ WF_vars(Next)

\* The two ways a run ends: processDesign has thrown out of the planning
\* phase and returned nothing, or it has returned a report holding one
\* outcome per component of the plan.
EndedAborted ==
  /\ phase = "aborted"
  /\ thrown # "none"
  /\ ~ret.returned
  /\ Started = {}
  /\ results = << >>

EndedWithReport ==
  /\ phase = "done"
  /\ thrown = "none"
  /\ ret.returned
  /\ ret.results = results
  /\ Len(ret.results) = NumComponents
  /\ \A i \in Positions : Cardinality(ResultsFor(i)) = 1

PlanningFailed == plan.kind = "threw" \/ PlanMissing

ResultNames == [j \in 1..Len(results) |-> results[j].component]
CompletionNames ==
  [j \in 1..Len(metricsComponents) |-> PascalOf[metricsComponents[j].name]]

DirOf(i) ==
  IF workingDir[i] = "worktree" THEN worktreePath(i) ELSE << "projectRoot" >>

\* C14 (as claimed) -- Workspace exclusivity: no two components execute at
\* the same moment with the same working directory, and no working
\* directory is used by two components of a run, fallen back or not.
C14_WorkspaceExclusivity ==
  /\ \A i \in running, j \in running : i # j => DirOf(i) # DirOf(j)
  /\ \A i \in Started, j \in Started : i # j => DirOf(i) # DirOf(j)

\* C14 (amended) -- a worktree directory is used by the one component it
\* was set up for, and only if it exists; two components have the same
\* working directory only when both have no worktree and run in the
\* project root.
C14_WorktreeExclusivity ==
  \A i \in Started :
    /\ workingDir[i] = "worktree" => existsSync(i)
    /\ \A j \in Started \ {i} :
         DirOf(i) = DirOf(j) =>
           /\ DirOf(i) = << "projectRoot" >>
           /\ worktree[i] = "absent"
           /\ worktree[j] = "absent"

\* Two components without worktree run in the project root at the same
\* moment, after a component that ran in its own worktree.
C14_Witness ==
  \E i \in running, j \in running, k \in Started :
    /\ i # j
    /\ DirOf(i) = << "projectRoot" >>
    /\ DirOf(j) = << "projectRoot" >>
    /\ workingDir[k] = "worktree"

\* C15 -- Idempotent provisioning: when setupWorktrees handles a name again,
\* the path and the branch name are those of the first time
\* (worktreeBase/<name>, feature/<name>), the turn creates no branch and adds
\* no worktree, and over all turns at most one worktree is added.
C15_IdempotentProvisioning ==
  /\ \A k \in 2..Len(prov.calls) :
       /\ prov.calls[k].path = prov.calls[1].path
       /\ prov.calls[k].branchName = prov.calls[1].branchName
       /\ prov.calls[k].branchName = << "feature/", prov.name >>
       /\ ~prov.calls[k].branchCreated
       /\ ~prov.calls[k].worktreeAdded
  /\ Cardinality({ k \in 1..Len(prov.calls) : prov.calls[k].worktreeAdded }) <= 1

\* The first turn created the branch and the worktree; a second turn has run.
C15_Witness ==
  /\ Len(prov.calls) >= 2
  /\ prov.calls[1].branchCreated
  /\ prov.calls[1].worktreeAdded
  /\ prov.repo.dir = "worktree"

\* -------------------------------------------- grouping: property helpers
Grouped == calc.step \in {"grouped", "chunked"}

ListPositions == 1..Len(calc.components)

PriorityOf(i) == calc.components[i].priority

\* The list holds numbers only (every number of the model is an integer).
IntegerPriorities == \A i \in ListPositions : PriorityOf(i).t = "number"

\* The entries of Object.entries(groups) whose group holds position i.
EntriesOf(i) ==
  { e \in 1..Len(calc.entries) :
      \E k \in 1..Len(calc.entries[e].group) : calc.entries[e].group[k] = i }

\* C16 (Ascending tiers): for a task list with integer priorities, 0 and
\* negative values included, a task with a lower priority value lies in an
\* earlier entry of Object.entries(groups), the order the dispatcher
\* iterates, than a task with a higher one.
C16_AscendingTiers ==
  (Grouped /\ IntegerPriorities) =>
    \A i \in ListPositions, j \in ListPositions :
      PriorityOf(i).n < PriorityOf(j).n =>
        \A e \in EntriesOf(i), f \in EntriesOf(j) : e < f

\* The keys of the entries whose group holds position i.
TierLabelsOf(i) == { calc.entries[e].priority : e \in EntriesOf(i) }

\* C17 (Default tier): a task whose priority is absent or invalid
\* (undefined, null, NaN, non-numeric) is placed in tier 1, and a task with
\* an integer priority is placed in the tier of exactly that value.
C17_DefaultTier ==
  Grouped =>
    \A i \in ListPositions :
      TierLabelsOf(i) =
        {IF PriorityOf(i).t = "number" THEN PriorityOf(i) ELSE Num(1)}

\* The positions of a group are in list order.
InListOrder(group) ==
  \A k \in 1..Len(group), l \in 1..Len(group) : k < l => group[k] < group[l]

\* C18 (Grouping is a stable partition and never fails): groupByPriority
\* does not throw; every task of the list is in exactly one tier, tasks of
\* equal priority are in one tier in their list order, no tier is empty,
\* and the empty list gives no tier.
C18_StablePartition ==
  /\ calc.step # "threw"
  /\ Grouped =>
       /\ \A i \in ListPositions : Cardinality(EntriesOf(i)) = 1
       /\ \A e \in 1..Len(calc.entries) :
            /\ Len(calc.entries[e].group) >= 1
            /\ InListOrder(calc.entries[e].group)
            /\ \A k \in 1..Len(calc.entries[e].group) :
                 calc.entries[e].group[k] \in ListPositions
       /\ \A i \in ListPositions, j \in ListPositions :
            PriorityOf(i) = PriorityOf(j) => EntriesOf(i) = EntriesOf(j)
       /\ (Len(calc.components) = 0 => calc.entries = << >>)

\* ------------------------------------------- chunking: property helpers
Chunked == calc.step = "chunked"

RECURSIVE Concatenation(_)
Concatenation(seqs) ==
  IF seqs = << >> THEN << >> ELSE Head(seqs) \o Concatenation(Tail(seqs))

\* ceil(n / L) for n >= 0, L >= 1.
CeilDiv(n, L) == (n + L - 1) \div L

\* C19 (Batch partition): for a tier of n tasks and a limit L >= 1, the
\* batches are consecutive slices of the tier in order: there are
\* ceil(n/L) of them, each but the last has exactly L tasks, the last has
\* between 1 and L, and their concatenation is the tier's task list.
C19_BatchPartition ==
  Chunked =>
    \A e \in 1..Len(calc.entries) :
      LET tier == calc.entries[e].group
          batches == calc.chunks[e]
          L == config.maxParallelWorkers.n
      IN /\ L >= 1
         /\ Len(batches) = CeilDiv(Len(tier), L)
         /\ \A b \in 1..(Len(batches) - 1) : Len(batches[b]) = L
         /\ Len(batches[Len(batches)]) \in 1..L
         /\ Concatenation(batches) = tier

\* A tier of three tasks under the limit 2 was cut into a batch of two and
\* a batch of one.
C19_Witness ==
  /\ Chunked
  /\ config.maxParallelWorkers = Num(2)
  /\ \E e \in 1..Len(calc.entries) :
       /\ Len(calc.entries[e].group) = 3
       /\ Len(calc.chunks[e]) = 2
       /\ Len(calc.chunks[e][2]) = 1

\* ------------------------------------------------ demo: property helpers
\* The position in plan.components of the component of a given name.
Named(name) == CHOOSE i \in Positions : plan.components[i].name = name

button == Named(<<"b","u","t","t","o","n">>)
input == Named(<<"i","n","p","u","t">>)
card == Named(<<"c","a","r","d">>)
header == Named(<<"h","e","a","d","e","r">>)

\* C20 (End-to-end schedule): for the mock plan (button and input of
\* priority 1, card of priority 2, header of priority 3) under the limit 2,
\* the batches are {button, input}, then {card}, then {header}; a batch
\* starts only after the one before it is finished, and the results of a
\* run that ends with a report have 4 entries.
C20_EndToEndSchedule ==
  /\ phase = "dispatching" =>
       /\ plan = MockPlan
       /\ config.maxParallelWorkers = Num(2)
       /\ tierIdx >= 1 =>
            /\ [e \in 1..Len(groups) |-> chunk(groups[e].group, Num(2))]
                 = << << <<button, input>> >>, << <<card>> >>, << <<header>> >> >>
            /\ chunks = << CurChunk >>
            /\ CurChunk = groups[tierIdx].group
       /\ card \in Started => (Terminal(button) /\ Terminal(input))
       /\ header \in Started => Terminal(card)
       /\ running \in SUBSET {button, input}
            \/ running = {card} \/ running = {header}
  /\ EndedWithReport => Len(ret.results) = 4

\* button and input are executing at the same time.
C20_Witness ==
  /\ phase = "dispatching"
  /\ running = {button, input}
  /\ card \notin Started
  /\ header \notin Started

\* ---------------------------------------------- worker: property helpers
CallbackSettled == work.step = "settled"

\* The text `needle` occurs in the text `hay` (both sequences of strings):
\* one of the parts of hay is needle.
Mentions(hay, needle) == \E k \in 1..Len(hay) : hay[k] = needle

\* C21 (Timeout is a failure, not a hang): a worker call ends however the
\* subprocess behaves, also when it does not end by itself; the callback
\* of a call that timed out fulfils, so the batch goes on, with an outcome
\* of status failed whose error names the timeout.
C21_TimeoutIsFailure ==
  /\ work.step = "called" => ENABLED CallbackSettles
  /\ (CallbackSettled /\ work.subprocess = "timeout") =>
       /\ work.promise.kind = "fulfil"
       /\ work.promise.value.status = "failed"
       /\ Mentions(work.promise.value.error, "spawnSync sh ETIMEDOUT")

\* The callback of a call whose subprocess ran into the timeout has settled.
C21_Witness ==
  /\ CallbackSettled
  /\ work.subprocess = "timeout"
  /\ work.promise.value.status = "failed"

\* C22 (Single invocation): in one run worker.buildComponent, and with it
\* the CLI subprocess, is called exactly once for each task that was
\* started and never for one that was not; a task that failed or timed out
\* is not called again, so at the end of a run that dispatched every task
\* has exactly one call.
C22_SingleInvocation ==
  /\ \A i \in Positions : invocations[i] = IF i \in Started THEN 1 ELSE 0
  /\ \A i \in DOMAIN invocations \ Positions : invocations[i] = 0
  /\ \A i \in Positions : (Failed(i) \/ i \in raised) => invocations[i] = 1
  /\ EndedWithReport => \A i \in Positions : invocations[i] = 1

\* A run has returned in which some task timed out and was called once.
C22_Witness ==
  /\ EndedWithReport
  /\ NumComponents >= 2
  /\ \E i \in raised : Failed(i) /\ invocations[i] = 1

\* The shape the claim asks of an outcome object.
WellShaped(outcome) ==
  /\ "status" \in DOMAIN outcome
  /\ outcome.status \in {"success", "partial", "failed"}
  /\ ("error" \in DOMAIN outcome) <=> (outcome.status = "failed")

\* C23 (Outcome shape): every recorded task outcome, in the values the
\* callbacks resolved with, in results and in the value processDesign
\* returns, has a status in {success, partial, failed} and carries an error
\* field if and only if its status is failed.
C23_OutcomeShape ==
  /\ \A i \in DOMAIN settled : WellShaped(settled[i])
  /\ \A j \in 1..Len(results) : WellShaped(results[j])
  /\ \A j \in 1..Len(ret.results) : WellShaped(ret.results[j])

\* A run returned a failed outcome with its error and a successful one
\* without.
C23_Witness ==
  /\ EndedWithReport
  /\ \E j \in 1..Len(ret.results) :
       ret.results[j].status = "failed" /\ "error" \in DOMAIN ret.results[j]
  /\ \E j \in 1..Len(ret.results) :
       ret.results[j].status = "success" /\ "error" \notin DOMAIN ret.results[j]

\* What the callback gives for the same component and the same end of the
\* subprocess when the component's worktree directory exists.
IsolatedPromise ==
  Callback(variant, work.component, "worktree",
           buildComponent(work.component, work.subprocess))

\* C24 (Degraded-isolation note): the outcome of a task executed in the
\* shared fallback directory carries a degraded-isolation note, so it is
\* not the outcome an isolated execution gives, and its status is the one
\* the isolated execution gives.
C24_DegradedIsolationNote ==
  (CallbackSettled /\ work.dir = "projectRoot") =>
    /\ work.promise.kind = "fulfil"
    /\ work.promise.value # IsolatedPromise.value
    /\ work.promise.value.status = IsolatedPromise.value.status

\* C25 (Duplicate outcomes): when the plan holds a name twice, the report
\* keeps one outcome for that name, the last, and nothing is thrown: the
\* results processDesign returns never hold two outcomes for one task
\* name.
C25_DuplicateOutcomes ==
  /\ thrown = "none"
  /\ ret.returned =>
       \A j \in 1..Len(ret.results), k \in 1..Len(ret.results) :
         ret.results[j].component = ret.results[k].component => j = k

\* The instance fields a run writes, as the constructor leaves them.
FreshFields ==
  /\ progress.completed = 0
  /\ progress.failed = 0
  /\ metricsComponents = << >>
  /\ inProgress = << >>

\* C26 (One run per engine): once processDesign has returned, no second
\* run starts on the same Orchestrator, and no run starts with progress
\* counters or per-component metrics of an earlier one.
C26_OneRunPerEngine ==
  /\ plannerCalls <= 1
  /\ phase = "planning" => FreshFields

\* The worktree directory of task i is on disk.
Provisioned(i) == worktree[i] \in {"existing", "worktree"}

\* C27 as stated (Provisioned-before-execute): no task's worker is invoked
\* unless its workspace is provisioned, and a task whose provisioning failed
\* is recorded as failed without its worker being invoked.
C27_ProvisionedBeforeExecute ==
  \A i \in Positions :
    /\ invocations[i] > 0 => Provisioned(i)
    /\ (worktree[i] = "absent" /\ phase \in {"finalizing", "done"}) =>
         (Failed(i) /\ invocations[i] = 0)

\* C27 amended (Provisioning attempted before execute): no task's worker is
\* invoked before setupWorktrees has handled that task and every other; a
\* task whose workspace is provisioned is executed in it, and a task whose
\* provisioning failed has its worker invoked all the same, once, in the
\* project root, and is recorded with the status its worker gave.
C27_AttemptedBeforeExecute ==
  \A i \in Positions :
    /\ invocations[i] > 0 =>
         /\ SetupDone
         /\ worktree[i] # "unexamined"
         /\ workingDir[i] = IF Provisioned(i) THEN "worktree" ELSE "projectRoot"
    /\ (worktree[i] = "absent" /\ phase \in {"finalizing", "done"}) =>
         /\ invocations[i] = 1
         /\ settled[i].status = OwnStatus(i)
         /\ \E j \in 1..Len(results) : results[j] = settled[i]

\* A task whose worktree could not be created was built successfully in the
\* project root, next to a task built in its worktree.
C27_Witness ==
  /\ phase = "done"
  /\ \E i \in Positions, k \in Positions :
       /\ worktree[i] = "absent" /\ invocations[i] = 1 /\ Succeeded(i)
       /\ Provisioned(k) /\ workingDir[k] = "worktree"

\* ----------------------------------------- schedule: property helpers
\* The list with the fields other than name and priority blanked.
Blanked(components) ==
  [i \in 1..Len(components) |->
     [name |-> components[i].name, priority |-> components[i].priority,
      dependencies |-> {}, complexity |-> "medium"]]

\* The schedule of a list under a limit: per tier, in the order the
\* dispatcher iterates, the tier's key and its batches of list positions.
ScheduleOf(components, limit) ==
  LET entries == groupByPriority(components)
  IN [e \in 1..Len(entries) |->
        [priority |-> entries[e].priority,
         batches |-> chunk(entries[e].group, limit)]]

\* The schedule the two helpers were seen to give.
ScheduleMade ==
  [e \in 1..Len(calc.entries) |->
     [priority |-> calc.entries[e].priority, batches |-> calc.chunks[e]]]

\* C28 (Dependencies are advisory): the batch schedule of a task list is
\* the schedule of the list that differs from it only by having no
\* dependencies and one complexity, so it depends on the list order, the
\* priorities and the limit alone.
C28_DependenciesAdvisory ==
  Chunked =>
    ScheduleMade = ScheduleOf(Blanked(calc.components),
                              config.maxParallelWorkers)

\* A task lies in the same batch as a task of its tier that it names as a
\* dependency.
C28_Witness ==
  /\ Chunked
  /\ \E e \in 1..Len(calc.chunks) : \E b \in 1..Len(calc.chunks[e]) :
       \E k \in 1..Len(calc.chunks[e][b]), l \in 1..Len(calc.chunks[e][b]) :
         calc.components[calc.chunks[e][b][k]].name
           \in calc.components[calc.chunks[e][b][l]].dependencies

\* ---------------------------------------------------------------------
\* The limit is a number that is at least 1.
PositiveInteger(x) == x.t = "number" /\ x.n >= 1

\* The caller's object lacks the key or holds undefined, zero or NaN
\* under it.
Unusable(cfg) ==
  ~cfg.has \/ cfg.maxParallelWorkers \in {Undefined, Num(0), NaN}

\* C29 (Effective concurrency limit): whatever config object the
\* constructor was given, the maxParallelWorkers value that chunk receives
\* is a positive integer, and it is the variant's default when the caller's
\* value is missing, undefined, zero or NaN.
C29_EffectiveLimit ==
  loop.step # "none" =>
    /\ PositiveInteger(config.maxParallelWorkers)
    /\ Unusable(loop.passed) =>
         config.maxParallelWorkers = DefaultMaxParallel(variant)

\* The limit the loop runs with is an integer.
IntegerLimit == config.maxParallelWorkers.t = "number"

\* The dispatch of the tier has ended and every task of the tier was
\* started exactly once.
DispatchedOnce ==
  /\ loop.step = "done"
  /\ \A k \in DOMAIN loop.started : loop.started[k] = 1

\* C30 (Dispatch terminates): for every finite tier and every integer
\* limit, zero and negative ones included, the chunk loop and the loop
\* over its chunks come to an end, and by then each task of the tier was
\* started exactly once.
C30_DispatchTerminates == IntegerLimit => <>DispatchedOnce

\* With a limit of at least 1 the loop makes at most one turn per element
\* and returns what the chunk operator gives.
ChunkLoopAgrees ==
  PositiveInteger(config.maxParallelWorkers) =>
    /\ Len(loop.chunks) <= Len(loop.array)
    /\ loop.step \in {"returned", "done"} =>
         loop.chunks = chunk(loop.array, config.maxParallelWorkers)

\* The loop has made MaxTurns turns and its test still holds.
StillTurning ==
  /\ loop.step = "test"
  /\ Len(loop.chunks) = MaxTurns
  /\ LessThan(loop.i, Len(loop.array))

\* With NaN or undefined as the limit the loop returns what the chunk
\* operator gives.
ChunkLoopAgreesNaN ==
  (loop.step \in {"returned", "done"} /\ ~IntegerLimit) =>
    loop.chunks = chunk(loop.array, config.maxParallelWorkers)

\* A turn of the loop moves i towards the end of the array.
ChunkTurnAdvances ==
  [][ChunkTurn => (loop'.i.t = "number" => loop'.i.n > loop.i.n)]_vars
\* ---------------------------------------------------------------------
\* C31 (Success means the worker succeeded): the outcome of a worker call
\* has status success only if the subprocess was spawned and exited with
\* code 0; a call whose subprocess timed out, could not be spawned or
\* exited with another code has an outcome of status failed.
C31_SuccessMeansExitZero ==
  CallbackSettled =>
    /\ work.promise.value.status = "success" => work.subprocess = "exit0"
    /\ work.subprocess # "exit0" => work.promise.value.status = "failed"
\* ---------------------------------------------------------------------
\* The task at position i bears the name whose repository the run found.
OnFoundRepository(i) == plan.components[i].name = prov.name

\* worktreeBase/<name> is a worktree bound to feature/<name>, added by
\* setupWorktrees in this run or found so.
BoundWorktree == prov.repo.dir = "worktree"

\* C32 (Isolated directory is a bound worktree): a task's worker runs in
\* worktreeBase/<name> only if that directory is a worktree bound to the
\* branch feature/<name>; a directory that is merely found at that path is
\* not used, and the directory chosen at dispatch is the worktree exactly
\* when the provisioning phase left a bound worktree.
C32_IsolatedDirIsBoundWorktree ==
  \A i \in Started :
    OnFoundRepository(i) => (workingDir[i] = "worktree" <=> BoundWorktree)
\* ---------------------------------------------------------------------
\* The tasks whose callback has run to its end, and the counters' sum.
FinishedTasks == DOMAIN settled
Counted == progress.completed + progress.failed

\* C33 (Progress accounting): in the metrics generation, after every task
\* completion progress.completed + progress.failed is the number of
\* finished tasks and the length of metrics.components, progress.completed
\* is the number of outcomes of status success, the sum never exceeds
\* progress.total, and it equals progress.total once executeWorkers has
\* returned.
C33_ProgressAccounting ==
  variant = "metrics" =>
    /\ Counted = Cardinality(FinishedTasks)
    /\ Counted = Len(metricsComponents)
    /\ progress.completed = Cardinality({ i \in FinishedTasks : Succeeded(i) })
    /\ Counted <= progress.total
    /\ phase \in {"finalizing", "done"} => Counted = progress.total

\* executeWorkers of the metrics generation has returned after a task that
\* succeeded and a task that failed.
C33_Witness ==
  /\ variant = "metrics"
  /\ phase = "finalizing"
  /\ progress.completed >= 1
  /\ progress.failed >= 1
  /\ Len(metricsComponents) = progress.total
\* ---------------------------------------------------------------------
\* The names of the tasks whose worker call has started and not finished.
RunningNames == { plan.components[i].name : i \in running }

\* The names progress.inProgress holds.
InProgressNames == { inProgress[k] : k \in 1..Len(inProgress) }

\* C34 (In-progress tracking): in the tracked generation progress.inProgress
\* holds exactly the names of the tasks whose worker call has started and
\* not finished, never more than maxParallelWorkers of them, and none once
\* executeWorkers has returned; then progress.completed + progress.failed
\* is the number of tasks and progress.failed is the number of outcomes of
\* status failed.
C34_InProgressTracking ==
  variant = "tracked" =>
    /\ InProgressNames = RunningNames
    /\ Len(inProgress) <= config.maxParallelWorkers.n
    /\ phase \in {"finalizing", "done"} =>
         /\ inProgress = << >>
         /\ Counted = NumComponents
         /\ progress.failed = Cardinality({ i \in Positions : Failed(i) })
\* ---------------------------------------------------------------------
\* The list positions of the plan in the order of dispatch: tier by tier
\* as the dispatcher iterates them, batch by batch, and inside a batch by
\* position.
DispatchOrder ==
  LET schedule == ScheduleOf(plan.components, config.maxParallelWorkers)
  IN Concatenation([e \in 1..Len(schedule) |->
                      Concatenation(schedule[e].batches)])

\* C35 (Deterministic result order): the results of executeWorkers are in
\* the order of dispatch (tier, then batch, then position in the batch):
\* the names in results are a prefix of the names of the plan in that
\* order, the whole of it once executeWorkers has returned, so they are
\* fixed by the plan and the limit whatever the order in which the worker
\* calls of a batch finish.
C35_DeterministicResultOrder ==
  phase \in {"dispatching", "finalizing", "done"} =>
    LET order == DispatchOrder
    IN /\ Len(results) <= Len(order)
       /\ \A j \in 1..Len(results) :
            /\ results[j].component = PascalOf[plan.components[order[j]].name]
            /\ results[j] = settled[order[j]]
       /\ phase \in {"finalizing", "done"} => Len(results) = NumComponents

\* executeWorkers has returned; the calls of a batch finished in another
\* order than they were started, which metrics.components shows.
C35_Witness ==
  /\ variant = "metrics"
  /\ phase = "finalizing"
  /\ Len(results) >= 2
  /\ CompletionNames # ResultNames
\* ---------------------------------------------------------------------
\* The components setupWorktrees has handled are the first setupIdx of the
\* list, and nothing is dispatched before it has handled them all.
HandledInListOrder ==
  /\ \A i \in DOMAIN worktree : worktree[i] # "unexamined" <=> i <= setupIdx
  /\ setupIdx <= NumComponents
  /\ Started # {} => SetupDone
  /\ thrown # "WorktreeError"

\* A step that changes what setupWorktrees has done handles the next
\* component of the list and no other, leaves it with a worktree or, after
\* a git failure, without one, and throws nothing.
HandlesNextOnly ==
  setupVars' # setupVars =>
    /\ setupIdx' = setupIdx + 1
    /\ \A i \in DOMAIN worktree :
         IF i = setupIdx + 1
         THEN worktree'[i] \in {"worktree", "existing", "absent"}
         ELSE worktree'[i] = worktree[i]
    /\ phase' = "provisioning"
    /\ thrown' = "none"

\* C36 (Provisioning is sequential and failure-tolerant): setupWorktrees
\* handles every component exactly once, one at a time in list order; a
\* git failure for a component is caught, leaves that component without a
\* worktree, and the loop goes on with the remaining components without
\* throwing.
C36_SequentialTolerantProvisioning ==
  []HandledInListOrder /\ [][HandlesNextOnly]_vars

\* After a component whose worktree could not be added, a later component
\* got its worktree.
C36_Witness ==
  /\ SetupDone
  /\ \E i \in Positions, j \in Positions :
       i < j /\ worktree[i] = "absent" /\ worktree[j] = "worktree"
\* ---------------------------------------------------------------------
\* analyzeDesign has settled.
Planned == phase \notin {"idle", "planning"}

\* The plan is what the CLI gave rather than the built-in one.
FromCli ==
  /\ figmaUrl \notin {"demo", ""}
  /\ cli.kind = "components"
  /\ Len(cli.components) > 0

\* The components of the plan are in ascending order of priority.
AscendingPlan ==
  \A i \in Positions, j \in Positions :
    i < j => plan.components[i].priority.n <= plan.components[j].priority.n

\* The components of the plan are those the CLI gave, each as often.
SameComponents ==
  /\ Len(plan.components) = Len(cli.components)
  /\ \A k \in DOMAIN cli.components :
       Cardinality({ i \in Positions : plan.components[i] = cli.components[k] })
         = Cardinality({ i \in DOMAIN cli.components :
                           cli.components[i] = cli.components[k] })

\* C37 (Planner fallback): analyzeDesign of the CLI planner never throws
\* and always returns a plan of at least one component; a plan that comes
\* from the CLI holds the CLI's components in ascending order of priority;
\* when the CLI call failed, its output was no plan or the plan had no
\* component, the plan is the built-in mock plan of 4 components; so the
\* run is never aborted.
C37_PlannerFallback ==
  /\ phase # "aborted"
  /\ thrown = "none"
  /\ Planned =>
       /\ plan.kind = "plan"
       /\ NumComponents >= 1
       /\ IF FromCli
          THEN AscendingPlan /\ SameComponents
          ELSE plan = MockPlan /\ NumComponents = 4

\* The run went on to provisioning with the mock plan after the CLI call
\* had failed.
C37_Witness ==
  /\ phase = "provisioning"
  /\ figmaUrl = "url"
  /\ cli.kind = "threw"
  /\ plan = MockPlan
\* ---------------------------------------------------------------------
\* The history of the run and the places of the model's responses in it.
History == agent.conversationHistory
Responses == { k \in 1..Len(History) : History[k].role = "assistant" }

\* The response at place k has no tool_use block.
NoToolCall(k) == Len(History[k].content) = 0

\* The message after the response at place k answers its tool_use blocks:
\* one tool_result per block, in order, with the block's id, marked
\* is_error exactly when the tool threw.
Answered(k) ==
  /\ k < Len(History)
  /\ History[k + 1].role = "user"
  /\ Len(History[k + 1].content) = Len(History[k].content)
  /\ \A b \in 1..Len(History[k].content) :
       /\ History[k + 1].content[b].type = "tool_result"
       /\ History[k + 1].content[b].tool_use_id = History[k].content[b].id
       /\ History[k + 1].content[b].is_error = History[k].content[b].throws

\* C38 (Bounded tool loop): run makes at most maxIterations model calls;
\* it returns success true exactly when a response within the budget has
\* no tool call, with 1 <= iterations <= maxIterations, and otherwise
\* success false with iterations = maxIterations; every response with tool
\* calls is answered by one tool_result per call, in order, with the
\* matching id, is_error for a tool that threw, and the loop goes on; only
\* an error of the model call leaves run.
C38_BoundedToolLoop ==
  agent.step # "none" =>
    /\ agent.calls <= agent.maxIterations
    /\ agent.calls = agent.iterations
    /\ \A k \in Responses : NoToolCall(k) \/ Answered(k)
    /\ Cardinality(Responses) =
         IF agent.step = "threw" THEN agent.calls - 1 ELSE agent.calls
    /\ agent.step = "returned" =>
         /\ agent.ret.success <=> \E k \in Responses : NoToolCall(k)
         /\ agent.ret.success =>
              /\ 1 <= agent.ret.iterations
              /\ agent.ret.iterations <= agent.maxIterations
              /\ agent.ret.iterations = agent.calls
         /\ ~agent.ret.success => agent.ret.iterations = agent.maxIterations
    /\ agent.step = "loop" => \A k \in Responses : ~NoToolCall(k)

\* run returned success in its last allowed iteration, after a response
\* whose second tool threw had been answered.
C38_Witness ==
  /\ agent.step = "returned"
  /\ agent.ret.success
  /\ agent.ret.iterations = agent.maxIterations
  /\ \E k \in Responses :
       /\ Len(History[k].content) = MaxToolCalls
       /\ History[k + 1].content[2].is_error
       /\ ~History[k + 1].content[1].is_error
=============================================================================
